---- MODULE Spec2Model ----
(***************************************************************************)
(* Storymaker pipeline: backend/pipeline/story_maker.py (StoryMaker) and   *)
(* the lazy singleton of backend/api.py (get_storymaker).                  *)
(*                                                                         *)
(* Text is modelled at line granularity.  A python string is a sequence of *)
(* lines; a line is a record [kind, num, body]:                            *)
(*   kind = "scene" : the line  "Scene <num>: <body>"                      *)
(*   kind = "desc"  : the line  "Description: <body>"                      *)
(*   kind = "text"  : any other non-blank line                             *)
(*   kind = "blank" : a whitespace-only line                               *)
(* num is the digit string matched by \d+, body the rest of the line with  *)
(* its surrounding whitespace removed ("" when there is none).             *)
(* Short strings on which characters matter (titles, file names) are       *)
(* sequences of one-character strings.                                     *)
(***************************************************************************)
EXTENDS Integers, Sequences, FiniteSets, TLC

\* ---------------------------------------------------------------- bounds
MaxRetriesChoice == 3      \* max_retries is drawn from 0..MaxRetriesChoice
MaxRuns == 2               \* create_story runs made one after another
NumRequests == 3           \* concurrent requests reaching get_storymaker
MaxLines == 4              \* lines of a text handed to a parser

DefaultMaxRetries == 3
DefaultNumScenes == 5

\* ---------------------------------------------------------------- helpers
Min(S) == CHOOSE x \in S : \A y \in S : x <= y

Range(s) == {s[x] : x \in DOMAIN s}

SubLines(L, a, b) == [x \in 1..(b - a + 1) |-> L[a + x - 1]]

BlankLine == [kind |-> "blank", num |-> <<>>, body |-> ""]
TextLine(b) == [kind |-> "text", num |-> <<>>, body |-> b]
SceneLine(ds, b) == [kind |-> "scene", num |-> ds, body |-> b]
DescLine(b) == [kind |-> "desc", num |-> <<>>, body |-> b]

\* the remainder of a marker line, as a piece of a captured group
TextOf(b) == IF b = "" THEN BlankLine ELSE TextLine(b)


\* smallest index >= from whose line has one of the kinds; Len(L)+1 if none
FirstKind(L, from, kinds) ==
    LET S == {x \in from..Len(L) : L[x].kind \in kinds}
    IN  IF S = {} THEN Len(L) + 1 ELSE Min(S)

FirstNonBlank(L, from) == FirstKind(L, from, {"scene", "desc", "text"})

\* str.strip(), ws being the whitespace item of the representation
StripOf(s, ws) ==
    LET keep == {x \in DOMAIN s : s[x] # ws}
    IN  IF keep = {} THEN <<>>
        ELSE LET lo == Min(keep)
                 hi == CHOOSE x \in keep : \A y \in keep : y <= x
             IN  SubLines(s, lo, hi)

\* on a text of lines, and on a string of characters
Strip(s) == StripOf(s, BlankLine)
StripChars(s) == StripOf(s, " ")

\* int(<digit string>)
RECURSIVE DigitsToInt(_)
DigitsToInt(ds) ==
    IF ds = <<>> THEN 0
    ELSE 10 * DigitsToInt(SubSeq(ds, 1, Len(ds) - 1)) + ds[Len(ds)]

\* str(<int>), as used by the f-strings and by str(k)
RECURSIVE IntToDigits(_)
IntToDigits(n) ==
    IF n < 10 THEN <<n>> ELSE Append(IntToDigits(n \div 10), n % 10)

\* ---------------------------------------------------------------- parsing
\* One attempt of the parse_scenes pattern at the scene line i:
\*   Scene\s*(\d+):\s*(.*?)\nDescription:\s*(.*?)(?=\nScene\s*\d+:|\Z)
\* \s* is greedy and crosses line ends, (.*?) is lazy and (DOTALL) crosses
\* line ends too.
SceneMatch(L, i) ==
    LET n == Len(L)
        b == L[i].body
        m == FirstNonBlank(L, i + 1)
        jA == FirstKind(L, i + 1, {"desc"})
        jLater == FirstKind(L, m + 1, {"desc"})
        mIsDesc == m <= n /\ L[m].kind = "desc"
        j == IF b # "" THEN jA
             ELSE IF mIsDesc /\ jLater <= n THEN jLater
             ELSE IF mIsDesc THEN m
             ELSE jA
        summary == IF b # "" THEN <<TextOf(b)>> \o SubLines(L, i + 1, j - 1)
                   ELSE IF j = m THEN <<>>
                   ELSE SubLines(L, m, j - 1)
        d == IF j <= n THEN L[j].body ELSE ""
        m2 == FirstNonBlank(L, j + 1)
        kA == FirstKind(L, j + 1, {"scene"})
        kB == IF m2 > n THEN n + 1 ELSE FirstKind(L, m2 + 1, {"scene"})
        description == IF d # "" THEN <<TextOf(d)>> \o SubLines(L, j + 1, kA - 1)
                       ELSE IF m2 > n THEN <<>>
                       ELSE SubLines(L, m2, kB - 1)
    IN  [ok |-> j <= n,
         num |-> L[i].num,
         summary |-> summary,
         description |-> description,
         next |-> IF d # "" THEN kA ELSE kB]

\* re.findall(pattern, scenes_text, re.DOTALL): the matches from line pos on
RECURSIVE SceneMatches(_, _)
SceneMatches(L, pos) ==
    LET i == FirstKind(L, pos, {"scene"})
    IN  IF i > Len(L) THEN <<>>
        ELSE LET mt == SceneMatch(L, i)
             IN  IF mt.ok THEN <<mt>> \o SceneMatches(L, mt.next)
                 ELSE SceneMatches(L, i + 1)

parse_scenes(scenes_text) ==
    LET matches == SceneMatches(scenes_text, 1)
    IN  [x \in 1..Len(matches) |->
            [scene |-> DigitsToInt(matches[x].num),
             summary |-> Strip(matches[x].summary),
             description |-> Strip(matches[x].description)]]

\* One match of the image-prompt pattern at the scene line i:
\*   Scene\s*(\d+):\s*(.*?)(?=\nScene\s*\d+:|\Z)
PromptMatch(L, i) ==
    LET n == Len(L)
        b == L[i].body
        m == FirstNonBlank(L, i + 1)
        kA == FirstKind(L, i + 1, {"scene"})
        kB == IF m > n THEN n + 1 ELSE FirstKind(L, m + 1, {"scene"})
    IN  [num |-> L[i].num,
         text |-> IF b # "" THEN <<TextOf(b)>> \o SubLines(L, i + 1, kA - 1)
                  ELSE IF m > n THEN <<>>
                  ELSE SubLines(L, m, kB - 1),
         next |-> IF b # "" THEN kA ELSE kB]

RECURSIVE PromptMatches(_, _)
PromptMatches(L, pos) ==
    LET i == FirstKind(L, pos, {"scene"})
    IN  IF i > Len(L) THEN <<>>
        ELSE LET mt == PromptMatch(L, i)
             IN  <<mt>> \o PromptMatches(L, mt.next)

\* {int(num): text.strip() for num, text in matches}: a later match with the
\* same key replaces the earlier one
parse_image_prompts(raw_prompts) ==
    LET matches == PromptMatches(raw_prompts, 1)
        keys == {DigitsToInt(matches[x].num) : x \in DOMAIN matches}
        last(k) == CHOOSE x \in DOMAIN matches :
                      /\ DigitsToInt(matches[x].num) = k
                      /\ \A y \in DOMAIN matches :
                            DigitsToInt(matches[y].num) = k => y <= x
    IN  [k \in keys |-> Strip(matches[last(k)].text)]

\* re.sub(r'[\\/*?:"<>|]', "_", title)
Forbidden == {"\\", "/", "*", "?", ":", "\"", "<", ">", "|"}
sanitize_filename(t) == [x \in DOMAIN t |-> IF t[x] \in Forbidden THEN "_" ELSE t[x]]


\* ---------------------------------------------------------------- state
VARIABLES
    max_retries,        \* StoryMaker.max_retries
    genre,              \* StoryMaker.genre
    num_scenes,         \* StoryMaker.num_scenes
    run,                \* number of the create_story run in progress
    pc,                 \* the stage create_story is at
    query,              \* query_llama2: "idle", "running", "returned", "raised"
    attempt,            \* loop variable of query_llama2
    calls,              \* requests.post calls of the latest query_llama2
    last_outcome,       \* outcome of the latest requests.post
    gen_invocations,    \* stage -> query_llama2 invocations in this run
    story_idea, validation, title, raw_scenes, scenes,
    image_prompts, raw_image_prompts,
    output_folder,
    story_doc,          \* the Story returned by save_story_to_mongo
    db,                 \* the Story collection
    fs,                 \* the files under story_outputs/
    scene_idx,          \* position of the loop of generate_images_and_audio
    media_pc,           \* "image" or "audio": the step of that loop's body
    media_log,          \* the steps of the media backends in this run
    video_clips,        \* the list given to concatenate_videoclips
    video_ret,          \* what create_video_for_project returned
    result,             \* what create_story returned
    error,              \* the exception create_story raised
    trace,              \* the stages completed in this run
    storymaker,         \* api.storymaker: 0 is None
    storymaker_lock,    \* api.storymaker_lock: the holder, 0 when free
    constructions,      \* StoryMaker(pipe) constructor runs
    req_params,         \* request -> its GenerateRequest
    req_pc,             \* request -> its position in generate_story_api
    req_sm,             \* request -> what get_storymaker returned to it
    req_read            \* request -> the last read of self.genre and
                        \* self.num_scenes made by its create_story thread

queryVars == <<query, attempt, calls, last_outcome, gen_invocations>>
textVars == <<story_idea, validation, title, raw_scenes, scenes,
              image_prompts, raw_image_prompts>>
mediaVars == <<scene_idx, media_pc, media_log, video_clips, video_ret>>
runVars == <<max_retries, genre, num_scenes, run, pc, output_folder, story_doc, db, fs,
             result, error, trace>>
apiVars == <<storymaker, storymaker_lock, constructions, req_params, req_pc, req_sm,
             req_read>>
pipelineVars == <<queryVars, textVars, mediaVars, runVars>>
vars == <<pipelineVars, apiVars>>

\* ---------------------------------------------------------------- stages
StageOrder ==
    <<"IdeaGeneration", "Validation", "TitleGeneration", "SceneGeneration",
      "SceneParsing", "ImagePromptGeneration", "ImagePromptParsing",
      "Persist", "MediaSynthesis", "VideoAssembly">>

TextStages == {"IdeaGeneration", "Validation", "TitleGeneration",
               "SceneGeneration", "ImagePromptGeneration"}

\* the statement create_story goes on with after a stage
NextStage_skipsPersist(stage) ==
    CASE stage = "IdeaGeneration" -> "Validation"
      [] stage = "Validation" -> "TitleGeneration"
      [] stage = "TitleGeneration" -> "SceneGeneration"
      [] stage = "SceneGeneration" -> "SceneParsing"
      [] stage = "SceneParsing" -> "ImagePromptGeneration"
      [] stage = "ImagePromptGeneration" -> "ImagePromptParsing"
      [] stage = "ImagePromptParsing" -> "MediaSynthesis"
      [] stage = "Persist" -> "MediaSynthesis"
      [] stage = "MediaSynthesis" -> "VideoAssembly"
      [] stage = "VideoAssembly" -> "Done"

NextStage(stage) ==
    CASE stage = "IdeaGeneration" -> "Validation"
      [] stage = "Validation" -> "TitleGeneration"
      [] stage = "TitleGeneration" -> "SceneGeneration"
      [] stage = "SceneGeneration" -> "SceneParsing"
      [] stage = "SceneParsing" -> "ImagePromptGeneration"
      [] stage = "ImagePromptGeneration" -> "ImagePromptParsing"
      [] stage = "ImagePromptParsing" -> "Persist"
      [] stage = "Persist" -> "MediaSynthesis"
      [] stage = "MediaSynthesis" -> "VideoAssembly"
      [] stage = "VideoAssembly" -> "Done"

\* ---------------------------------------------------------------- backends
\* What the text backend may answer (the "response" field, before .strip()).
IdeaReplies == {<<BlankLine, TextLine("idea"), BlankLine>>}
ValidationReplies == {<<TextLine("rating")>>}
TitleReplies == {<<"a", "/", "b">>, <<" ", "a", "_", "b">>, <<"c", " ">>}
SceneReplies ==
    { <<TextLine("noise")>>,
      <<BlankLine, SceneLine(<<1, 0>>, "s"), DescLine("d"),
        SceneLine(<<2>>, "s"), DescLine("d"), BlankLine>>,
      <<SceneLine(<<1>>, "s"), DescLine("d"),
        SceneLine(<<0, 1>>, "s"), DescLine("")>>,
      <<SceneLine(<<3>>, "s"), SceneLine(<<4>>, "s"), DescLine("d")>> }
PromptReplies ==
    { <<TextLine("sorry")>>,
      <<SceneLine(<<1, 0>>, "p"), SceneLine(<<2>>, "p"),
        SceneLine(<<1>>, "p"), SceneLine(<<1>>, "q")>> }

FailureKinds == {"status", "transport", "nofield"}

NoText == <<>>
NoPath == <<>>
NoDoc == [story_id |-> 0, title |-> <<>>, genre |-> "", story_idea |-> <<>>,
          raw_scenes_text |-> <<>>, scenes |-> <<>>, image_prompts |-> <<>>,
          raw_image_prompts |-> <<>>, folder |-> <<>>]
NoResult == [story_id |-> 0, story_folder |-> <<>>, video_file |-> <<>>,
             title |-> <<>>, story_idea |-> <<>>, validation |-> <<>>,
             scenes |-> <<>>, image_prompts |-> <<>>]

StoryIds == 1..MaxRuns


\* ---------------------------------------------------------------- files
\* A file of story_outputs/: scene_<stem>.<ext> or <stem>.mp4 in a folder,
\* with the run that wrote it and the text it was made from.
NoFile == [folder |-> <<>>, base |-> "", stem |-> <<>>, ext |-> "",
           by |-> 0, data |-> <<>>]

SceneFile(folder, scene_num, ext, by, data) ==
    [folder |-> folder, base |-> "scene_", stem |-> IntToDigits(scene_num),
     ext |-> ext, by |-> by, data |-> data]

SamePath(f, g) ==
    /\ f.folder = g.folder
    /\ f.base = g.base
    /\ f.stem = g.stem
    /\ f.ext = g.ext

\* the file at the path of f, NoFile when there is none
Lookup(files, f) ==
    IF \E g \in files : SamePath(f, g)
    THEN CHOOSE g \in files : SamePath(f, g)
    ELSE NoFile

Exists(files, f) == \E g \in files : SamePath(f, g)

\* open(path, "wb") and write: replaces what was there
WriteFile(files, f) == {g \in files : ~SamePath(f, g)} \cup {f}


\* ---------------------------------------------------------------- query_llama2
Replies(stage) ==
    CASE stage = "IdeaGeneration" -> IdeaReplies
      [] stage = "Validation" -> ValidationReplies
      [] stage = "TitleGeneration" -> TitleReplies
      [] stage = "SceneGeneration" -> SceneReplies
      [] stage = "ImagePromptGeneration" -> PromptReplies

\* response.json()["response"].strip()
Trimmed_untrimmed(stage, reply) == reply

Trimmed(stage, reply) ==
    IF stage = "TitleGeneration" THEN StripChars(reply) ELSE Strip(reply)

\* for attempt in range(self.max_retries): is there another iteration
MoreAttempts_offByOne(a) == a <= max_retries

MoreAttempts(a) == a < max_retries

\* where create_story is after query_llama2 ran out of attempts at a stage:
\* the raise of line 53 is caught nowhere in create_story
AfterExhaustion_swallowed(stage) == NextStage(stage)

AfterExhaustion(stage) == "Aborted"

\* generate_story_idea / validate_story / generate_title / generate_scenes /
\* generate_image_prompts call query_llama2
EnterQuery ==
    /\ pc \in TextStages
    /\ query # "running"
    /\ query' = "running"
    /\ attempt' = 0
    /\ calls' = 0
    /\ last_outcome' = "none"
    /\ gen_invocations' = [gen_invocations EXCEPT ![pc] = @ + 1]
    /\ UNCHANGED <<textVars, mediaVars, runVars, apiVars>>

\* one iteration that does not return: a status other than 200, an exception
\* of requests.post, or a 200 body without "response" (KeyError), all of
\* which end in time.sleep(2) and the next iteration
AttemptFails ==
    /\ query = "running"
    /\ MoreAttempts(attempt)
    /\ \E kind \in FailureKinds : last_outcome' = kind
    /\ attempt' = attempt + 1
    /\ calls' = calls + 1
    /\ UNCHANGED <<query, gen_invocations, textVars, mediaVars, runVars, apiVars>>

\* one iteration that returns the trimmed response to the calling stage
AttemptSucceeds ==
    /\ query = "running"
    /\ MoreAttempts(attempt)
    /\ \E reply \in Replies(pc) :
          LET text == Trimmed(pc, reply)
          IN  /\ story_idea' = IF pc = "IdeaGeneration" THEN text ELSE story_idea
              /\ validation' = IF pc = "Validation" THEN text ELSE validation
              /\ title' = IF pc = "TitleGeneration" THEN text ELSE title
              /\ raw_scenes' = IF pc = "SceneGeneration" THEN text ELSE raw_scenes
              /\ raw_image_prompts' =
                    IF pc = "ImagePromptGeneration" THEN text ELSE raw_image_prompts
    /\ last_outcome' = "ok"
    /\ calls' = calls + 1
    /\ query' = "returned"
    /\ pc' = NextStage(pc)
    /\ trace' = Append(trace, pc)
    /\ UNCHANGED <<attempt, gen_invocations, scenes, image_prompts, mediaVars,
                   max_retries, genre, num_scenes, run, output_folder,
                   story_doc, db, fs, result, error, apiVars>>

\* the loop is over: raise Exception("Failed to get response ...")
RetriesExhausted ==
    /\ query = "running"
    /\ ~MoreAttempts(attempt)
    /\ query' = "raised"
    /\ error' = "GenerationUnavailable"
    /\ pc' = AfterExhaustion(pc)
    /\ UNCHANGED trace
    /\ UNCHANGED <<attempt, calls, last_outcome, gen_invocations, textVars,
                   mediaVars, max_retries, genre, num_scenes, run,
                   output_folder, story_doc, db, fs, result, apiVars>>

\* ---------------------------------------------------------------- parsing stages
\* scenes = self.parse_scenes(raw_scenes)
ParseScenes ==
    /\ pc = "SceneParsing"
    /\ scenes' = parse_scenes(raw_scenes)
    /\ query' = "idle"
    /\ pc' = NextStage(pc)
    /\ trace' = Append(trace, pc)
    /\ UNCHANGED <<attempt, calls, last_outcome, gen_invocations, story_idea,
                   validation, title, raw_scenes, image_prompts,
                   raw_image_prompts, mediaVars, max_retries, genre, num_scenes,
                   run, output_folder, story_doc, db, fs, result, error, apiVars>>

\* the second half of generate_image_prompts
ParseImagePrompts ==
    /\ pc = "ImagePromptParsing"
    /\ image_prompts' = parse_image_prompts(raw_image_prompts)
    /\ query' = "idle"
    /\ pc' = NextStage(pc)
    /\ trace' = Append(trace, pc)
    /\ UNCHANGED <<attempt, calls, last_outcome, gen_invocations, story_idea,
                   validation, title, raw_scenes, scenes, raw_image_prompts,
                   mediaVars, max_retries, genre, num_scenes, run,
                   output_folder, story_doc, db, fs, result, error, apiVars>>


\* ---------------------------------------------------------------- persistence
\* image_prompts_str_keys = {str(k): v for k, v in image_prompts.items()}
image_prompts_str_keys(prompts) ==
    [ds \in {IntToDigits(k) : k \in DOMAIN prompts} |-> prompts[DigitsToInt(ds)]]

\* the Story document save_story_to_mongo builds
Story(story_id, folder) ==
    [story_id |-> story_id,
     title |-> title,
     genre |-> genre,
     story_idea |-> story_idea,
     raw_scenes_text |-> raw_scenes,
     scenes |-> scenes,
     image_prompts |-> image_prompts_str_keys(image_prompts),
     raw_image_prompts |-> raw_image_prompts,
     folder |-> folder]

\* story_doc.save(): the collection after a save that went through
Save(collection, doc) == collection \cup {doc}

\* where create_story is after save_story_to_mongo: an exception of
\* story_doc.save() is caught nowhere in create_story
AfterSave_ignoresFailure(saved) == "MediaSynthesis"

AfterSave(saved) == IF saved THEN NextStage("Persist") ELSE "Aborted"

\* lines 217-224: the project folder, then save_story_to_mongo.  mkdir may
\* fail (OSError); story_doc.save() fails when the store is unreachable or
\* when the 8 characters of the uuid are those of a stored story (unique=True)
Persist ==
    /\ pc = "Persist"
    /\ query' = "idle"
    /\ LET folder == <<"story_outputs/">> \o sanitize_filename(title)
       IN  /\ output_folder' = folder
           /\ \/ /\ pc' = "Aborted"
                 /\ error' = "OSError"
                 /\ UNCHANGED <<story_doc, db, trace>>
              \/ \E story_id \in StoryIds, reachable \in BOOLEAN :
                    LET doc == Story(story_id, folder)
                        saved == reachable /\ \A d \in db : d.story_id # story_id
                        nxt == AfterSave(saved)
                    IN  /\ db' = IF saved THEN Save(db, doc) ELSE db
                        /\ story_doc' = IF saved THEN doc ELSE NoDoc
                        /\ pc' = nxt
                        /\ error' = IF nxt = "Aborted" THEN "PersistenceFailure" ELSE error
                        /\ trace' = IF nxt = "Aborted" THEN trace ELSE Append(trace, pc)
    /\ UNCHANGED <<attempt, calls, last_outcome, gen_invocations, textVars,
                   mediaVars, max_retries, genre, num_scenes, run, fs, result,
                   apiVars>>


\* ---------------------------------------------------------------- media
\* a step of the media backends, as media_log records it: call says whether
\* the backend was invoked, ok whether its file was written, found is the
\* narration file the audio step met at its path (NoFile when none)
MediaStep(op, scene_num, call, ok, found) ==
    [op |-> op, scene |-> scene_num, call |-> call, ok |-> ok, found |-> found]

\* self.pipe(prompt, ...): the pipeline raises when it is given no prompt
ImageOutcomes(has_prompt) == IF has_prompt THEN BOOLEAN ELSE {FALSE}

\* the except clause of lines 122-123 only prints: the loop body goes on
\* with the narration of the same scene
AfterImage_failureAborts(ok) == IF ok THEN "audio" ELSE "raise"

AfterImage(ok) == "audio"

\* the except clause of lines 133-134 only prints: the loop goes on
AfterAudio(ok) == "image"

\* what a failed synthesis does to the Story collection: nothing
StoreAfterFailure_rollback(collection, doc) == collection \ {doc}

StoreAfterFailure(collection, doc) == collection

\* if not mp3_path.exists()
NeedsNarration_always(found) == TRUE

NeedsNarration(found) == found = NoFile

\* lines 112-123: the image of scenes[scene_idx]
MediaImage ==
    /\ pc = "MediaSynthesis"
    /\ media_pc = "image"
    /\ scene_idx <= Len(scenes)
    /\ LET scene_num == scenes[scene_idx].scene
           has_prompt == scene_num \in DOMAIN image_prompts
           prompt == IF has_prompt THEN image_prompts[scene_num] ELSE NoText
       IN  \E ok \in ImageOutcomes(has_prompt) :
              /\ fs' = IF ok
                       THEN WriteFile(fs, SceneFile(output_folder, scene_num,
                                                    "png", run, prompt))
                       ELSE fs
              /\ db' = IF ok THEN db ELSE StoreAfterFailure(db, story_doc)
              /\ media_log' = Append(media_log,
                                  MediaStep("image", scene_num, TRUE, ok, NoFile))
              /\ IF AfterImage(ok) = "audio"
                 THEN media_pc' = "audio" /\ UNCHANGED <<pc, error>>
                 ELSE pc' = "Aborted" /\ error' = "MediaError" /\ UNCHANGED media_pc
    /\ UNCHANGED <<queryVars, textVars, scene_idx, video_clips, video_ret,
                   max_retries, genre, num_scenes, run, output_folder,
                   story_doc, result, trace, apiVars>>

\* lines 125-134: the narration of scenes[scene_idx]
MediaAudio ==
    /\ pc = "MediaSynthesis"
    /\ media_pc = "audio"
    /\ scene_idx <= Len(scenes)
    /\ LET scene_num == scenes[scene_idx].scene
           description == Strip(scenes[scene_idx].description)
           mp3 == SceneFile(output_folder, scene_num, "mp3", run, description)
           found == Lookup(fs, mp3)
       IN  IF description # NoText /\ NeedsNarration(found)
           THEN \E ok \in BOOLEAN :
                   /\ fs' = IF ok THEN WriteFile(fs, mp3) ELSE fs
                   /\ db' = IF ok THEN db ELSE StoreAfterFailure(db, story_doc)
                   /\ media_log' = Append(media_log,
                                      MediaStep("speech", scene_num, TRUE, ok, found))
                   /\ IF AfterAudio(ok) = "image"
                      THEN /\ media_pc' = "image"
                           /\ scene_idx' = scene_idx + 1
                           /\ UNCHANGED <<pc, error>>
                      ELSE /\ pc' = "Aborted"
                           /\ error' = "MediaError"
                           /\ UNCHANGED <<media_pc, scene_idx>>
           ELSE /\ media_log' = Append(media_log,
                                   MediaStep("speech", scene_num, FALSE, FALSE, found))
                /\ media_pc' = "image"
                /\ scene_idx' = scene_idx + 1
                /\ UNCHANGED <<fs, db, pc, error>>
    /\ UNCHANGED <<queryVars, textVars, video_clips, video_ret, max_retries,
                   genre, num_scenes, run, output_folder, story_doc, result,
                   trace, apiVars>>

\* the loop of generate_images_and_audio is over
MediaDone ==
    /\ pc = "MediaSynthesis"
    /\ media_pc = "image"
    /\ scene_idx > Len(scenes)
    /\ pc' = NextStage(pc)
    /\ trace' = Append(trace, pc)
    /\ UNCHANGED <<queryVars, textVars, mediaVars, max_retries, genre,
                   num_scenes, run, output_folder, story_doc, db, fs, result,
                   error, apiVars>>


\* ---------------------------------------------------------------- video
\* order of python ints, and of python strings of digits
IntLeq(a, b) == DigitsToInt(a) <= DigitsToInt(b)

RECURSIVE LexLeq(_, _)
LexLeq(a, b) ==
    IF a = <<>> THEN TRUE
    ELSE IF b = <<>> THEN FALSE
    ELSE IF a[1] # b[1] THEN a[1] < b[1]
    ELSE LexLeq(Tail(a), Tail(b))

\* the scene_*.png files of project_folder.iterdir()
ScenePngs(files, folder) ==
    {f \in files : f.folder = folder /\ f.base = "scene_" /\ f.ext = "png"}

\* the numbers of the files of F, smallest string first
RECURSIVE SortedLex(_)
SortedLex(F) ==
    IF F = {} THEN <<>>
    ELSE LET f == CHOOSE f \in F : \A g \in F : LexLeq(f.stem, g.stem)
         IN  <<DigitsToInt(f.stem)>> \o SortedLex(F \ {f})

\* sorted(int(...) for f in F)
RECURSIVE SortedInts(_)
SortedInts(F) ==
    IF F = {} THEN <<>>
    ELSE LET f == CHOOSE f \in F : \A g \in F : IntLeq(f.stem, g.stem)
         IN  <<DigitsToInt(f.stem)>> \o SortedInts(F \ {f})

\* lines 139-143
scene_nums_lexicographic(files, folder) == SortedLex(ScenePngs(files, folder))

scene_nums(files, folder) == SortedInts(ScenePngs(files, folder))

\* lines 145-156: the clips, one for each scene number whose audio exists
Clips(files, folder) ==
    LET has_audio(n) == Exists(files, SceneFile(folder, n, "mp3", 0, NoText))
        nums == SelectSeq(scene_nums(files, folder), has_audio)
    IN  [x \in 1..Len(nums) |->
            [scene |-> nums[x],
             image |-> Lookup(files, SceneFile(folder, nums[x], "png", 0, NoText)),
             audio |-> Lookup(files, SceneFile(folder, nums[x], "mp3", 0, NoText))]]

\* output_folder / f"{self.sanitize_filename(title)}.mp4"
OutputVideo == output_folder \o <<"/">> \o sanitize_filename(title) \o <<".mp4">>

VideoFile(clips) ==
    [folder |-> output_folder, base |-> "", stem |-> sanitize_filename(title),
     ext |-> "mp4", by |-> run, data |-> [x \in DOMAIN clips |-> clips[x].scene]]

\* lines 235-244: the dictionary create_story returns
ReturnValue ==
    [story_id |-> story_doc.story_id,
     story_folder |-> output_folder,
     video_file |-> OutputVideo,
     title |-> title,
     story_idea |-> story_idea,
     validation |-> validation,
     scenes |-> scenes,
     image_prompts |-> image_prompts]

\* lines 229-244: create_video_for_project and the return of create_story.
\* With no clip the assembler returns None; with clips it concatenates and
\* encodes them, and an exception of the clip constructors or of
\* write_videofile leaves create_story.
AssembleVideo ==
    /\ pc = "VideoAssembly"
    /\ LET clips == Clips(fs, output_folder)
       IN  IF clips = <<>>
           THEN /\ video_ret' = NoPath
                /\ video_clips' = clips
                /\ result' = ReturnValue
                /\ pc' = NextStage(pc)
                /\ trace' = Append(trace, pc)
                /\ UNCHANGED <<fs, media_log, error>>
           ELSE \E ok \in BOOLEAN :
                   /\ media_log' = Append(media_log,
                                      MediaStep("video", 0, TRUE, ok, NoFile))
                   /\ IF ok
                      THEN /\ fs' = WriteFile(fs, VideoFile(clips))
                           /\ video_ret' = OutputVideo
                           /\ video_clips' = clips
                           /\ result' = ReturnValue
                           /\ pc' = NextStage(pc)
                           /\ trace' = Append(trace, pc)
                           /\ UNCHANGED error
                      ELSE /\ pc' = "Aborted"
                           /\ error' = "AssemblyError"
                           /\ UNCHANGED <<fs, video_ret, video_clips, result, trace>>
    /\ UNCHANGED <<queryVars, textVars, scene_idx, media_pc, max_retries, genre,
                   num_scenes, run, output_folder, story_doc, db, apiVars>>

\* ---------------------------------------------------------------- runs
FreshRun ==
    /\ pc = "IdeaGeneration"
    /\ query = "idle"
    /\ attempt = 0
    /\ calls = 0
    /\ last_outcome = "none"
    /\ gen_invocations = [st \in TextStages |-> 0]
    /\ story_idea = NoText
    /\ validation = NoText
    /\ title = NoText
    /\ raw_scenes = NoText
    /\ scenes = <<>>
    /\ image_prompts = <<>>
    /\ raw_image_prompts = NoText
    /\ output_folder = NoPath
    /\ story_doc = NoDoc
    /\ scene_idx = 1
    /\ media_pc = "image"
    /\ media_log = <<>>
    /\ video_clips = <<>>
    /\ video_ret = NoPath
    /\ result = NoResult
    /\ error = ""
    /\ trace = <<>>

\* the same values, as the next state
FreshRunNext ==
    /\ pc' = "IdeaGeneration"
    /\ query' = "idle"
    /\ attempt' = 0
    /\ calls' = 0
    /\ last_outcome' = "none"
    /\ gen_invocations' = [st \in TextStages |-> 0]
    /\ story_idea' = NoText
    /\ validation' = NoText
    /\ title' = NoText
    /\ raw_scenes' = NoText
    /\ scenes' = <<>>
    /\ image_prompts' = <<>>
    /\ raw_image_prompts' = NoText
    /\ output_folder' = NoPath
    /\ story_doc' = NoDoc
    /\ scene_idx' = 1
    /\ media_pc' = "image"
    /\ media_log' = <<>>
    /\ video_clips' = <<>>
    /\ video_ret' = NoPath
    /\ result' = NoResult
    /\ error' = ""
    /\ trace' = <<>>

\* the caller invokes create_story again, on the same store and the same disk
NewRun ==
    /\ pc \in {"Done", "Aborted"}
    /\ run < MaxRuns
    /\ run' = run + 1
    /\ FreshRunNext
    /\ UNCHANGED <<max_retries, genre, num_scenes, db, fs, apiVars>>

\* ---------------------------------------------------------------- api.py
Requests == 1..NumRequests

\* the GenerateRequest bodies a client may post
Params == {[genre |-> "fantasy", num_scenes |-> DefaultNumScenes],
           [genre |-> "horror", num_scenes |-> 2]}

\* if storymaker is None
IsNone_always(sm) == TRUE

IsNone(sm) == sm = 0

\* async with storymaker_lock: the coroutine goes on when the lock is free
Acquire(r) ==
    /\ req_pc[r] = "start"
    /\ storymaker_lock = 0
    /\ storymaker_lock' = r
    /\ req_pc' = [req_pc EXCEPT ![r] = "locked"]
    /\ UNCHANGED <<pipelineVars, storymaker, constructions, req_params, req_sm,
                   req_read>>

\* lines 41-42, which hold no await: StoryMaker(pipe) sets the defaults of
\* __init__ on the new instance
Construct(r) ==
    /\ req_pc[r] = "locked"
    /\ IF IsNone(storymaker)
       THEN /\ storymaker' = constructions + 1
            /\ constructions' = constructions + 1
            /\ genre' = "fantasy"
            /\ num_scenes' = DefaultNumScenes
            /\ max_retries' = DefaultMaxRetries
       ELSE UNCHANGED <<storymaker, constructions, genre, num_scenes, max_retries>>
    /\ req_pc' = [req_pc EXCEPT ![r] = "release"]
    /\ UNCHANGED <<queryVars, textVars, mediaVars, run, pc, output_folder,
                   story_doc, db, fs, result, error, trace, storymaker_lock,
                   req_params, req_sm, req_read>>

\* the lock is released and get_storymaker returns storymaker
Release(r) ==
    /\ req_pc[r] = "release"
    /\ storymaker_lock' = 0
    /\ req_sm' = [req_sm EXCEPT ![r] = storymaker]
    /\ req_pc' = [req_pc EXCEPT ![r] = "got"]
    /\ UNCHANGED <<pipelineVars, storymaker, constructions, req_params, req_read>>

\* lines 106-109: the request writes its parameters on the shared instance
\* and hands create_story to a thread
Configure(r) ==
    /\ req_pc[r] = "got"
    /\ genre' = req_params[r].genre
    /\ num_scenes' = req_params[r].num_scenes
    /\ req_pc' = [req_pc EXCEPT ![r] = "spawned"]
    /\ UNCHANGED <<queryVars, textVars, mediaVars, max_retries, run, pc,
                   output_folder, story_doc, db, fs, result, error, trace,
                   storymaker, storymaker_lock, constructions, req_params, req_sm,
                   req_read>>

\* the places of create_story that read the fields of the shared instance,
\* in the order in which a run reaches them: the five prompts and the Story
\* of save_story_to_mongo
ThreadReads ==
    <<"IdeaGeneration", "Validation", "TitleGeneration", "SceneGeneration",
      "ImagePromptGeneration", "Persist">>

NoRead == [at |-> 0, genre |-> "", num_scenes |-> 0]

\* the prompt of generate_scenes is the one that holds self.num_scenes
ReadsNumScenes(at) == ThreadReads[at] = "SceneGeneration"

\* the thread of request r, started by asyncio.to_thread(sm.create_story),
\* builds its next prompt, or its Story, from self.genre and self.num_scenes
\* as they are at that moment
ThreadRead(r) ==
    /\ req_pc[r] = "spawned"
    /\ req_read[r].at < Len(ThreadReads)
    /\ LET at == req_read[r].at + 1 IN
           req_read' = [req_read EXCEPT ![r] =
               [at |-> at, genre |-> genre,
                num_scenes |-> IF ReadsNumScenes(at) THEN num_scenes ELSE 0]]
    /\ UNCHANGED <<pipelineVars, storymaker, storymaker_lock, constructions,
                   req_params, req_pc, req_sm>>

\* the module is loaded: storymaker = None, the lock is free, and the
\* requests are about to call get_storymaker
InitApi ==
    /\ max_retries = DefaultMaxRetries
    /\ genre = "fantasy"
    /\ num_scenes = DefaultNumScenes
    /\ run = 1
    /\ FreshRun
    /\ db = {}
    /\ fs = {}
    /\ storymaker = 0
    /\ storymaker_lock = 0
    /\ constructions = 0
    /\ req_params \in [Requests -> Params]
    /\ req_pc = [r \in Requests |-> "start"]
    /\ req_sm = [r \in Requests |-> 0]
    /\ req_read = [r \in Requests |-> NoRead]

NextApi ==
    \E r \in Requests :
        \/ Acquire(r)
        \/ Construct(r)
        \/ Release(r)
        \/ Configure(r)
        \/ ThreadRead(r)

SpecApi == InitApi /\ [][NextApi]_vars


\* the state in which a StoryMaker built with max_retries = n starts its
\* first create_story, on an empty store and an empty disk
Started(n) ==
    /\ max_retries = n
    /\ genre = "fantasy"
    /\ num_scenes = DefaultNumScenes
    /\ run = 1
    /\ FreshRun
    /\ db = {}
    /\ fs = {}
    /\ storymaker = 1
    /\ storymaker_lock = 0
    /\ constructions = 1
    /\ req_params = [r \in Requests |-> [genre |-> "fantasy", num_scenes |-> DefaultNumScenes]]
    /\ req_pc = [r \in Requests |-> "spawned"]
    /\ req_sm = [r \in Requests |-> 1]
    /\ req_read = [r \in Requests |-> NoRead]

\* the StoryMaker of api.py, StoryMaker(pipe): the defaults of __init__
Init == Started(DefaultMaxRetries)

OneRun ==
    \/ EnterQuery
    \/ AttemptFails
    \/ AttemptSucceeds
    \/ RetriesExhausted
    \/ ParseScenes
    \/ ParseImagePrompts
    \/ Persist
    \/ MediaImage
    \/ MediaAudio
    \/ MediaDone
    \/ AssembleVideo

Next ==
    \/ OneRun
    \/ NewRun

\* create_story, run again and again by the one StoryMaker of api.py
Spec == Init /\ [][Next]_vars

\* a StoryMaker built with any max_retries makes one run
InitClient == \E n \in 0..MaxRetriesChoice : Started(n)

SpecClient == InitClient /\ [][OneRun]_vars

\* The lines of the texts handed to the parsers: "Scene <digits>: <rest>",
\* "Description: <rest>", a line of other text, an empty line.
ParserLines ==
    {SceneLine(<<1>>, "s"), SceneLine(<<0>>, "s"), SceneLine(<<2>>, ""),
     DescLine("d"), DescLine(""), TextLine("t"), BlankLine}

Texts == UNION {[1..n -> ParserLines] : n \in 0..MaxLines}

\* a run that is about to hand the text t to the parser of the stage
ParseInput(stage, t) ==
    /\ pc = stage
    /\ raw_scenes = IF stage = "SceneParsing" THEN t ELSE NoText
    /\ raw_image_prompts = IF stage = "ImagePromptParsing" THEN t ELSE NoText
    /\ max_retries = DefaultMaxRetries
    /\ genre = "fantasy"
    /\ num_scenes = DefaultNumScenes
    /\ run = 1
    /\ query = "returned"
    /\ attempt = 0
    /\ calls = 1
    /\ last_outcome = "ok"
    /\ gen_invocations = [st \in TextStages |-> 0]
    /\ story_idea = NoText
    /\ validation = NoText
    /\ title = NoText
    /\ scenes = <<>>
    /\ image_prompts = <<>>
    /\ output_folder = NoPath
    /\ story_doc = NoDoc
    /\ scene_idx = 1
    /\ media_pc = "image"
    /\ media_log = <<>>
    /\ video_clips = <<>>
    /\ video_ret = NoPath
    /\ result = NoResult
    /\ error = ""
    /\ trace = <<>>
    /\ db = {}
    /\ fs = {}
    /\ storymaker = 1
    /\ storymaker_lock = 0
    /\ constructions = 1
    /\ req_params = [r \in Requests |-> [genre |-> "fantasy", num_scenes |-> DefaultNumScenes]]
    /\ req_pc = [r \in Requests |-> "spawned"]
    /\ req_sm = [r \in Requests |-> 1]
    /\ req_read = [r \in Requests |-> NoRead]

InitParse ==
    \E stage \in {"SceneParsing", "ImagePromptParsing"}, t \in Texts :
        ParseInput(stage, t)

NextParse ==
    \/ ParseScenes
    \/ ParseImagePrompts

\* parse_scenes and the parsing half of generate_image_prompts, applied to
\* every text of at most MaxLines lines
SpecParse == InitParse /\ [][NextParse]_vars

\* ---------------------------------------------------------------- claims
IsPrefix(s, t) == Len(s) <= Len(t) /\ \A x \in DOMAIN s : s[x] = t[x]

\* the steps of media_log that belong to generate_images_and_audio
SynthesisSteps == SelectSeq(media_log, LAMBDA e : e.op # "video")

\* generate_images_and_audio has returned in this run
MediaFinished == pc \in {"VideoAssembly", "Done"} \/ error = "AssemblyError"

WrittenThisRun == {f \in fs : f.by = run}

\* C1: with max_retries = N and a backend whose every call fails,
\* query_llama2 makes exactly N backend calls and then raises; it never makes
\* more than N calls, and it returns only after a call that succeeded.
C1_ExactlyMaxRetriesThenRaise ==
    /\ calls <= max_retries
    /\ query = "raised" =>
          /\ calls = max_retries
          /\ attempt = calls
          /\ last_outcome # "ok"
          /\ error = "GenerationUnavailable"
    /\ query = "returned" => last_outcome = "ok" /\ attempt < calls
    /\ (query \in {"returned", "raised"} /\ attempt = calls) => query = "raised"

C1_Witness ==
    /\ max_retries = DefaultMaxRetries
    /\ query = "raised"
    /\ calls = DefaultMaxRetries
    /\ last_outcome \in FailureKinds

\* C2: the stages of a run complete in the order IdeaGeneration, Validation,
\* TitleGeneration, SceneGeneration, SceneParsing, ImagePromptGeneration,
\* ImagePromptParsing, Persist, MediaSynthesis, VideoAssembly; the stage in
\* progress is the one after the last completed stage; a run that is Done
\* completed each of them once; each text stage invoked query_llama2 once.
C2_StagesInOrder ==
    /\ IsPrefix(trace, StageOrder)
    /\ pc \in Range(StageOrder) => pc = StageOrder[Len(trace) + 1]
    /\ pc = "Done" => trace = StageOrder
    /\ \A st \in TextStages :
          /\ gen_invocations[st] <= 1
          /\ st \in Range(trace) => gen_invocations[st] = 1
          /\ (st \notin Range(trace) /\ pc # st /\ pc # "Aborted") => gen_invocations[st] = 0

C2_Witness ==
    /\ pc = "Done"
    /\ Len(trace) = Len(StageOrder)
    /\ video_ret # NoPath
    /\ \A st \in TextStages : gen_invocations[st] = 1

\* C3: when query_llama2 ran out of attempts in a text stage, the run is
\* aborted with that error, no Story was saved by the run, and no image,
\* speech or video backend was invoked by it.
C3_ExhaustionAborts ==
    error = "GenerationUnavailable" =>
        /\ pc = "Aborted"
        /\ story_doc = NoDoc
        /\ Cardinality(db) <= run - 1
        /\ media_log = <<>>
        /\ WrittenThisRun = {}
        /\ result = NoResult

C3_Witness ==
    /\ error = "GenerationUnavailable"
    /\ pc = "Aborted"
    /\ query = "raised"
    /\ calls = DefaultMaxRetries
    /\ trace = SubSeq(StageOrder, 1, 5)
    /\ scenes # <<>>

\* C4: the Story of a run is in the store before the first image or speech
\* call of the run; when the save failed the run is aborted and made no
\* media synthesis and no video assembly.
C4_PersistBeforeMedia ==
    /\ (media_log # <<>> \/ WrittenThisRun # {}
           \/ pc \in {"MediaSynthesis", "VideoAssembly", "Done"}) =>
          (story_doc # NoDoc /\ story_doc \in db)
    /\ error = "PersistenceFailure" =>
          /\ pc = "Aborted"
          /\ story_doc = NoDoc
          /\ media_log = <<>>
          /\ WrittenThisRun = {}
          /\ video_ret = NoPath

C4_Witness ==
    /\ pc = "MediaSynthesis"
    /\ Len(media_log) = 1
    /\ media_log[1].call
    /\ story_doc \in db
    /\ story_doc.scenes = scenes

\* C5: once a run has saved its Story, no later step of the run changes the
\* store: the saved document stays in it as it was written.
C5_RecordNeverModified ==
    [][(story_doc # NoDoc /\ run' = run) =>
          (db' = db /\ story_doc' = story_doc /\ story_doc \in db')]_vars

C5_Witness ==
    /\ pc = "Done"
    /\ story_doc \in db
    /\ \E x \in DOMAIN media_log : media_log[x].call /\ ~media_log[x].ok
    /\ video_ret # NoPath

\* C6: when no scene has both its image and its narration, the assembler
\* returns None, create_story completes with its Story saved, and the video
\* path it returns is null.
C6_NullVideoPathWhenNothingAssembled ==
    (pc = "Done" /\ video_clips = <<>>) =>
        /\ video_ret = NoPath
        /\ story_doc \in db
        /\ result.video_file = NoPath

\* C7: the clips of the assembled video are the scene numbers N that have
\* both scene_N.png and scene_N.mp3 in the project folder, each once, in
\* ascending numeric order.
C7_ClipsAreCompleteScenesAscending ==
    pc = "Done" =>
        LET both == {DigitsToInt(f.stem) :
                        f \in {g \in fs : /\ g.folder = output_folder
                                          /\ g.base = "scene_"
                                          /\ g.ext = "png"
                                          /\ \E h \in fs : /\ h.folder = g.folder
                                                           /\ h.base = "scene_"
                                                           /\ h.stem = g.stem
                                                           /\ h.ext = "mp3"}}
            ns == [x \in DOMAIN video_clips |-> video_clips[x].scene]
        IN  /\ Range(ns) = both
            /\ \A x, y \in DOMAIN ns : x < y => ns[x] < ns[y]

C7_Witness ==
    /\ pc = "Done"
    /\ [x \in DOMAIN video_clips |-> video_clips[x].scene] = <<2, 10>>
    /\ \E f \in fs : /\ f.folder = output_folder
                     /\ f.ext = "png"
                     /\ f.stem = <<1>>
    /\ ~\E f \in fs : /\ f.folder = output_folder
                      /\ f.ext = "mp3"
                      /\ f.stem = <<1>>

\* C8: generate_images_and_audio visits every scene in order; a failed image
\* or narration never ends the loop: each scene gets its image step and then
\* its narration step, whatever failed before.
C8_EverySceneVisited ==
    /\ error # "MediaError"
    /\ (pc = "MediaSynthesis" \/ MediaFinished) =>
          LET done == IF MediaFinished THEN Len(scenes) ELSE scene_idx - 1
              steps == SynthesisSteps
          IN  /\ Len(steps) = 2 * done
                                + (IF pc = "MediaSynthesis" /\ media_pc = "audio"
                                   THEN 1 ELSE 0)
              /\ \A x \in DOMAIN steps :
                    /\ steps[x].scene = scenes[(x + 1) \div 2].scene
                    /\ steps[x].op = IF x % 2 = 1 THEN "image" ELSE "speech"
                    /\ steps[x].op = "image" => steps[x].call

C8_Witness ==
    /\ MediaFinished
    /\ Len(scenes) = 2
    /\ Len(SynthesisSteps) = 4
    /\ ~media_log[1].ok
    /\ media_log[2].call /\ ~media_log[2].ok
    /\ media_log[3].call /\ media_log[3].ok
    /\ media_log[4].call /\ media_log[4].ok

\* C9: when scene_N.mp3 exists as the narration step reaches scene N, the
\* speech backend is not called and the file stays as it is; so a run makes
\* no speech call for a scene whose narration an earlier run wrote to the
\* same folder.
C9_NarrationIdempotent ==
    /\ \A x \in DOMAIN media_log :
          (media_log[x].op = "speech" /\ media_log[x].found # NoFile) =>
              (~media_log[x].call /\ media_log[x].found \in fs)
    /\ \A f \in fs :
          (f.ext = "mp3" /\ f.by < run /\ f.folder = output_folder) =>
              ~\E x \in DOMAIN media_log :
                  /\ media_log[x].op = "speech"
                  /\ media_log[x].scene = DigitsToInt(f.stem)
                  /\ media_log[x].call

C9_Witness ==
    \E x \in DOMAIN media_log :
        /\ media_log[x].op = "speech"
        /\ media_log[x].found # NoFile
        /\ media_log[x].found.by < run
        /\ ~media_log[x].call
        /\ media_log[x].found \in fs

\* C10: under every interleaving of the requests, StoryMaker is constructed
\* at most once and every return of get_storymaker gives that one instance.
C10_SingletonConstructedOnce ==
    /\ constructions <= 1
    /\ \A r \in Requests :
          req_pc[r] \in {"got", "spawned"} => (req_sm[r] # 0 /\ req_sm[r] = storymaker)
    /\ \A r1, r2 \in Requests :
          (req_pc[r1] \in {"got", "spawned"} /\ req_pc[r2] \in {"got", "spawned"})
              => req_sm[r1] = req_sm[r2]

C10_Witness ==
    /\ \A r \in Requests : req_pc[r] \in {"got", "spawned"}
    /\ constructions = 1
    /\ \A r \in Requests : req_sm[r] = 1


\* C11: every prompt that the run of a request issues, and the genre of the
\* Story that the run stores, hold the genre and the scene count of that
\* request, whatever the other requests do meanwhile
C11_RunUsesOwnParameters ==
    \A r \in Requests :
        req_read[r] # NoRead =>
            /\ req_read[r].genre = req_params[r].genre
            /\ ReadsNumScenes(req_read[r].at)
                   => req_read[r].num_scenes = req_params[r].num_scenes


\* the scene lines that a "Description:" line follows at once
BlockStarts(L) ==
    {x \in 1..(Len(L) - 1) : L[x].kind = "scene" /\ L[x + 1].kind = "desc"}

\* the scene of the well-formed block at line x: its number, the rest of
\* its scene line, and its description up to the next scene line
BlockScene(L, x) ==
    [scene |-> DigitsToInt(L[x].num),
     summary |-> Strip(<<TextOf(L[x].body)>>),
     description |-> Strip(<<TextOf(L[x + 1].body)>>
                           \o SubLines(L, x + 2, FirstKind(L, x + 2, {"scene"}) - 1))]

RECURSIVE BlockScenes(_, _)
BlockScenes(L, pos) ==
    LET later == {x \in BlockStarts(L) : x >= pos}
    IN  IF later = {} THEN <<>>
        ELSE <<BlockScene(L, Min(later))>> \o BlockScenes(L, Min(later) + 1)

\* every "Scene n:" and every "Description:" line carries text of its own
MarkersCarryText(L) ==
    \A x \in DOMAIN L : L[x].kind \in {"scene", "desc"} => L[x].body # ""

ScenesParsed == pc = "ImagePromptGeneration" /\ query = "idle"

\* C12: on a text of well-formed blocks and other lines, scene lines with no
\* Description among them, parse_scenes returns the scenes of the well-formed
\* blocks, in the order of the text, each with the number, summary and
\* description of its own block; on the empty text it returns no scene
C12_OneScenePerWellFormedBlock ==
    (ScenesParsed /\ MarkersCarryText(raw_scenes))
        => scenes = BlockScenes(raw_scenes, 1)


SceneNumbers(ss) == {ss[x].scene : x \in DOMAIN ss}

\* C13: the scenes of a stored Story have pairwise distinct numbers,
\* whatever text the backend returned for the scenes
C13_StoredSceneNumbersDistinct ==
    \A doc \in db :
        \A x, y \in DOMAIN doc.scenes :
            doc.scenes[x].scene = doc.scenes[y].scene => x = y

\* C14: the keys of the image prompts parsed in a run, and of those stored
\* in its Story, are numbers of scenes that parse_scenes returned in that run
C14_PromptKeysAreSceneNumbers ==
    /\ "ImagePromptParsing" \in Range(trace)
           => DOMAIN image_prompts \subseteq SceneNumbers(scenes)
    /\ \A doc \in db :
           {DigitsToInt(k) : k \in DOMAIN doc.image_prompts}
               \subseteq SceneNumbers(doc.scenes)


\* C15: once the Story is stored, no error of a scene's media or of the
\* video assembly leaves create_story: the run is not aborted, and when it
\* is over it has returned its result
C15_MediaAndAssemblyErrorsCaught ==
    "Persist" \in Range(trace) =>
        /\ pc # "Aborted"
        /\ error = ""
        /\ pc = "Done" => result = ReturnValue


\* C16: the image backend is called for a scene only when image_prompts has
\* an entry for the number of that scene, and a run writes scene_N.png only
\* for such a scene
C16_ImageRequestedOnlyWithPrompt ==
    /\ \A x \in DOMAIN media_log :
           (media_log[x].op = "image" /\ media_log[x].call)
               => media_log[x].scene \in DOMAIN image_prompts
    /\ \A f \in WrittenThisRun :
           f.ext = "png" => DigitsToInt(f.stem) \in DOMAIN image_prompts


\* the stage whose query_llama2 call returned last, and the text it returned
LastStage == trace[Len(trace)]

StageText(stage) ==
    CASE stage = "IdeaGeneration" -> story_idea
      [] stage = "Validation" -> validation
      [] stage = "TitleGeneration" -> title
      [] stage = "SceneGeneration" -> raw_scenes
      [] stage = "ImagePromptGeneration" -> raw_image_prompts

\* the whitespace item of the texts of a stage
Blank(stage) == IF stage = "TitleGeneration" THEN " " ELSE BlankLine

\* t is the reply r without the whitespace at its two ends
IsTrimOf(t, r, ws) ==
    /\ t # <<>> => (t[1] # ws /\ t[Len(t)] # ws)
    /\ \E a \in 1..(Len(r) + 1) :
           /\ a + Len(t) - 1 <= Len(r)
           /\ t = SubLines(r, a, a + Len(t) - 1)
           /\ \A x \in DOMAIN r : (x < a \/ x > a + Len(t) - 1) => r[x] = ws

\* C17: query_llama2 returns on the first attempt k <= max_retries that
\* succeeds, after exactly k backend calls, with the trimmed text of that
\* attempt, and makes no call after it; an attempt whose 200 reply has no
\* "response" field is counted as failed and never returns
C17_ReturnsFirstSuccessAfterKCalls ==
    /\ [](query = "returned" =>
             /\ last_outcome = "ok"
             /\ calls = attempt + 1
             /\ calls <= max_retries
             /\ \E r \in Replies(LastStage) :
                    IsTrimOf(StageText(LastStage), r, Blank(LastStage)))
    /\ [](last_outcome = "nofield" => (query # "returned" /\ calls = attempt))
    /\ [][(query = "returned" /\ query' # "running") => calls' = calls]_vars

\* the third attempt succeeded after two failed ones, and its reply, which
\* has whitespace at both ends, was returned without it
C17_Witness ==
    /\ query = "returned"
    /\ attempt = 2
    /\ calls = 3
    /\ LastStage = "IdeaGeneration"
    /\ story_idea = <<TextLine("idea")>>
    /\ story_idea \notin IdeaReplies


\* C18: every scene that parse_scenes returns has a number >= 1, a summary
\* and a description, the last two not empty once trimmed
C18_ParsedScenesAreValid ==
    ScenesParsed =>
        \A x \in DOMAIN scenes :
            /\ scenes[x].scene >= 1
            /\ Strip(scenes[x].summary) # <<>>
            /\ Strip(scenes[x].description) # <<>>

\* the prompt of the block that the scene line x opens: the rest of that
\* line and the lines up to the next scene line, trimmed
BlockPrompt(L, x) ==
    Strip(<<TextOf(L[x].body)>> \o SubLines(L, x + 1, FirstKind(L, x + 1, {"scene"}) - 1))

\* the map of the blocks of L: a number goes to the prompt of its last block
BlockPrompts(L) ==
    LET starts == {x \in DOMAIN L : L[x].kind = "scene"}
        keys == {DigitsToInt(L[x].num) : x \in starts}
        last(k) == CHOOSE x \in starts :
                      /\ DigitsToInt(L[x].num) = k
                      /\ \A y \in starts : DigitsToInt(L[y].num) = k => y <= x
    IN  [k \in keys |-> BlockPrompt(L, last(k))]

PromptsParsed == pc = NextStage("ImagePromptParsing") /\ query = "idle"

\* C19: the image-prompt parser maps the number of every "Scene N:" block,
\* which runs to the next "Scene M:" line or to the end of the text, to the
\* trimmed prompt of the last block with that number
C19_LastBlockOfEachNumberWins ==
    PromptsParsed => image_prompts = BlockPrompts(raw_image_prompts)


\* C20: in every run, also in one whose project directory an earlier run
\* used, each clip of the assembled video is of a scene number parsed in
\* this run and is made of an image and a narration written by this run
C20_ClipsComeFromThisRun ==
    \A x \in DOMAIN video_clips :
        /\ video_clips[x].scene \in SceneNumbers(scenes)
        /\ video_clips[x].image.by = run
        /\ video_clips[x].audio.by = run

====================================================================
